---- MODULE Spec2Model ----
(***************************************************************************)
(* The Dashboard of konradmakosa/rachunki: the monthly cost allocator      *)
(* (allMonthly), the quarter aggregator (aggregateToQuarters), the window  *)
(* selector and the display projection of                                  *)
(* src/frontend/src/components/Dashboard.jsx, as a state machine over the  *)
(* component's React state.                                                *)
(*                                                                         *)
(* Strings are sequences of UTF-16 code units, so that formatting          *)
(* (padStart, template literals), parsing (split, Number, parseInt) and    *)
(* string comparison (<, >=, localeCompare on keys of one format) are      *)
(* computed as the code computes them.                                     *)
(*                                                                         *)
(* Amounts are exact fixed-point rationals: an input cost_gross is a       *)
(* whole number of 1/100 (grosze), and every computed amount is a whole    *)
(* number of 1/(100*Scale), where Scale is a common multiple of every      *)
(* month count that occurs, so that cost / months.length is exact.  IEEE   *)
(* double rounding error is not modelled.                                  *)
(*                                                                         *)
(* The App (tabs, refreshKey) and the FileManager                          *)
(* (src/frontend/src/components/FileManager.jsx) are modelled with their   *)
(* requests in flight: an async handler is one action up to its await and  *)
(* one action for each way the awaited request completes.  Only one of     *)
(* Dashboard and FileManager is mounted at a time; an unmounted component  *)
(* holds its initial state.                                                *)
(*                                                                         *)
(* Specifications: Spec (the Dashboard over arbitrary responses),          *)
(* SpecAlloc (one response over the allocator's cases), SpecFetch (the     *)
(* Dashboard with responses by location), SpecFiles and SpecFilesFair (the *)
(* FileManager on its own), SpecApp (tabs, Dashboard and FileManager).     *)
(***************************************************************************)
EXTENDS Integers, Sequences, FiniteSets, TLC

VARIABLES chartData, loading, location, windowMonths, offset, aggregation, pending,
          activeTab, refreshKey,
          files, scanning, processing, results,
          calls, runs, uploads, detached

\* the Dashboard's state and its fetches in flight
dashVars == <<chartData, loading, location, windowMonths, offset, aggregation, pending>>

\* the App's state, the FileManager's state and its requests in flight
appVars == <<activeTab, refreshKey, files, scanning, processing, results,
             calls, runs, uploads, detached>>

vars == <<dashVars, appVars>>

-----------------------------------------------------------------------------
(* Strings *)

Dash == 45
Zero == 48
CharQ == 81

RECURSIVE NumToStr(_)
\* `${n}` of a non-negative integer
NumToStr(n) ==
  IF n < 10 THEN <<Zero + n>> ELSE NumToStr(n \div 10) \o <<Zero + (n % 10)>>

\* String(m).padStart(2, '0')
PadStart2(s) == IF Len(s) < 2 THEN <<Zero>> \o s ELSE s

RECURSIVE IndexOf(_, _, _)
\* s.indexOf(c, from i), 1-based, 0 when absent
IndexOf(s, c, i) ==
  IF i > Len(s) THEN 0 ELSE IF s[i] = c THEN i ELSE IndexOf(s, c, i + 1)

RECURSIVE SplitDash(_)
\* s.split('-')
SplitDash(s) ==
  LET i == IndexOf(s, Dash, 1)
  IN  IF i = 0 THEN <<s>>
      ELSE <<SubSeq(s, 1, i - 1)>> \o SplitDash(SubSeq(s, i + 1, Len(s)))

RECURSIVE ToNumber(_)
\* Number(s) / parseInt(s) of a string of decimal digits
ToNumber(s) ==
  IF s = <<>> THEN 0 ELSE ToNumber(SubSeq(s, 1, Len(s) - 1)) * 10 + (s[Len(s)] - Zero)

RECURSIVE StrLess(_, _)
\* a < b on strings: code unit by code unit, a proper prefix is smaller
StrLess(a, b) ==
  IF b = <<>> THEN FALSE
  ELSE IF a = <<>> THEN TRUE
  ELSE IF a[1] # b[1] THEN a[1] < b[1]
  ELSE StrLess(Tail(a), Tail(b))

StrLeq(a, b) == a = b \/ StrLess(a, b)

\* a.localeCompare(b) on keys of one format (digits, '-', 'Q')
localeCompare(a, b) == IF a = b THEN 0 ELSE IF StrLess(a, b) THEN -1 ELSE 1

\* the key `${y}-${String(m).padStart(2, '0')}`
MonthKey(y, m) == NumToStr(y) \o <<Dash>> \o PadStart2(NumToStr(m))

\* a well-formed date string YYYY-MM-DD
DateStr(y, m, d) == MonthKey(y, m) \o <<Dash>> \o PadStart2(NumToStr(d))

-----------------------------------------------------------------------------
(* Module-level helpers of Dashboard.jsx *)

toYearMonth(dateStr) ==
  IF dateStr = <<>> THEN <<>>
  ELSE LET p == SplitDash(dateStr) IN p[1] \o <<Dash>> \o p[2]

\* mutant: Math.floor in place of Math.ceil
Floor3(n) == n \div 3

\* Math.ceil(n / 3)
Ceil3(n) == IF n % 3 = 0 THEN n \div 3 ELSE (n \div 3) + 1

toQuarter(ym) ==
  LET p == SplitDash(ym)
      q == Ceil3(ToNumber(p[2]))
  IN  p[1] \o <<Dash, CharQ>> \o NumToStr(q)

RECURSIVE MonthsLoopNoRollover(_, _, _, _, _)
\* mutant: the year is not advanced after December
MonthsLoopNoRollover(y, m, ey, em, months) ==
  IF (y < ey \/ (y = ey /\ m <= em)) /\ Len(months) < 24
  THEN LET pushed == Append(months, MonthKey(y, m))
       IN  IF m + 1 > 12 THEN MonthsLoopNoRollover(y, 1, ey, em, pushed)
                         ELSE MonthsLoopNoRollover(y, m + 1, ey, em, pushed)
  ELSE months

RECURSIVE MonthsLoop(_, _, _, _, _)
\* the while loop of getMonthsBetween
MonthsLoop(y, m, ey, em, months) ==
  IF y < ey \/ (y = ey /\ m <= em)
  THEN LET pushed == Append(months, MonthKey(y, m))
       IN  IF m + 1 > 12 THEN MonthsLoop(y + 1, 1, ey, em, pushed)
                         ELSE MonthsLoop(y, m + 1, ey, em, pushed)
  ELSE months

getMonthsBetween(startDate, endDate) ==
  LET s == SplitDash(startDate)
      e == SplitDash(endDate)
      months == MonthsLoop(ToNumber(s[1]), ToNumber(s[2]),
                           ToNumber(e[1]), ToNumber(e[2]), <<>>)
  IN  IF Len(months) > 0 THEN months ELSE <<toYearMonth(startDate)>>

-----------------------------------------------------------------------------
(* The chart data the API serves (spec section 6): series of billing       *)
(* records.  A missing period_start / period_end is the empty string, a    *)
(* missing cost_gross the empty tuple; a present cost_gross is <<c>>, c in *)
(* 1/100.                                                                  *)

None == <<>>

DateZ == DateStr(2022, 2, 20)
DateY == DateStr(2022, 8, 10)
DateA == DateStr(2023, 9, 20)
DateB == DateStr(2023, 11, 15)
DateC == DateStr(2024, 1, 14)

Rec(est, cost, start, end) ==
  [is_estimate |-> est, cost_gross |-> cost, period_start |-> start, period_end |-> end]

\* billing periods: one month (no period_end), several months, across a
\* year end, and an end before the start
AllocPeriods ==
  {<<DateA, None>>, <<DateA, DateB>>, <<DateB, DateC>>, <<DateA, DateC>>, <<DateC, DateB>>}

\* seven months of three quarters, and three months across a year end more
\* than a year later
SamplePeriods == {<<DateZ, DateY>>, <<DateB, DateC>>}

\* regular records, records the filter is about, and an estimate
AllocRecords ==
  {Rec(FALSE, <<10000>>, p[1], p[2]) : p \in AllocPeriods}
    \cup {Rec(FALSE, c, DateB, DateC) : c \in {None, <<0>>, <<-5000>>}}
    \cup {Rec(FALSE, <<10000>>, None, DateC)}
    \cup {Rec(TRUE, <<10000>>, DateB, DateC)}

SampleRecords == {Rec(FALSE, <<10000>>, p[1], p[2]) : p \in SamplePeriods}

Tracked == <<"eon", "pgnig", "mpwik">>
Providers == {"eon", "pgnig", "mpwik", "tauron"}

\* the series of a response, by provider: one series per provider, utility
\* type and location, so a provider can have several
AllocSeries == <<"eon", "eon", "pgnig", "tauron">>
SampleSeries == <<"eon", "mpwik", "tauron">>

MaxRecords == 2

\* the data array of series i, from records placed as <<series, record>>
DataOf(placed, i) ==
  LET sel == SelectSeq(placed, LAMBDA p : p[1] = i)
  IN  [j \in 1..Len(sel) |-> sel[j][2]]

\* the response with the given series (by provider) and the placed records
Response(providers, placed) ==
  [null |-> FALSE,
   series |-> [i \in 1..Len(providers) |->
                 [provider |-> providers[i], data |-> DataOf(placed, i)]]]

\* the response without series
EmptyResponse == [null |-> FALSE, series |-> <<>>]

NullData == [null |-> TRUE, series |-> <<>>]

-----------------------------------------------------------------------------
(* Amounts *)

RECURSIVE Gcd(_, _)
Gcd(a, b) == IF b = 0 THEN a ELSE Gcd(b, a % b)

RECURSIVE LcmOf(_)
LcmOf(S) ==
  IF S = {} THEN 1
  ELSE LET n == CHOOSE x \in S : TRUE
           r == LcmOf(S \ {n})
       IN  (n * r) \div Gcd(n, r)

MonthCounts ==
  {Len(getMonthsBetween(p[1], IF p[2] = None THEN p[1] ELSE p[2])) :
     p \in AllocPeriods \cup SamplePeriods}

\* denominator of the fixed-point amounts, per 1/100
Scale == LcmOf(MonthCounts)

\* d.cost_gross || 0, as an amount
CostOf(d) == IF d.cost_gross = None THEN 0 ELSE d.cost_gross[1] * Scale

\* Math.round(x * 100) / 100: to the nearest 1/100, a half rounds up
Round2(x) == ((2 * x + Scale) \div (2 * Scale)) * Scale

-----------------------------------------------------------------------------
(* allMonthly (Dashboard.jsx 120-148).  providerMonths is the object       *)
(* keyed by month, as the sequence of its values in insertion order; a     *)
(* value is [month |-> key, cost |-> provider -> amount], cost having only *)
(* the providers assigned so far.                                          *)

NoCost == [k \in {} |-> 0]

\* row[k] || 0
ValueOr0(cost, k) == IF k \in DOMAIN cost THEN cost[k] ELSE 0

\* mutant: the cost is not divided
PerMonthUndivided(cost, months) == cost

\* cost / months.length
PerMonth(cost, months) == cost \div Len(months)

\* mutant: the share overwrites the running total
AddShareOverwrite(cost, provider, perMonth) == (provider :> perMonth) @@ cost

\* providerMonths[ym][provider] = (providerMonths[ym][provider] || 0) + perMonth
AddShare(cost, provider, perMonth) ==
  (provider :> (ValueOr0(cost, provider) + perMonth)) @@ cost

\* the body of `for (const ym of months)`
Accumulate(pm, ym, provider, perMonth) ==
  LET rows == IF \E i \in 1..Len(pm) : pm[i].month = ym
              THEN pm
              ELSE Append(pm, [month |-> ym, cost |-> NoCost])
  IN  [i \in 1..Len(rows) |->
         IF rows[i].month = ym
         THEN [rows[i] EXCEPT !.cost = AddShare(rows[i].cost, provider, perMonth)]
         ELSE rows[i]]

RECURSIVE AccumulateMonths(_, _, _, _)
AccumulateMonths(pm, months, provider, perMonth) ==
  IF months = <<>> THEN pm
  ELSE AccumulateMonths(Accumulate(pm, months[1], provider, perMonth),
                        Tail(months), provider, perMonth)

\* mutant: a missing or zero cost is not skipped
SkippedKeepsZeroCost(d) == d.is_estimate \/ d.period_start = None

\* mutant: estimates are not skipped
SkippedKeepsEstimates(d) == CostOf(d) = 0 \/ d.period_start = None

\* the two `continue` tests of the record loop
Skipped(d) == d.is_estimate \/ CostOf(d) = 0 \/ d.period_start = None

\* mutant: period_end is ignored
MonthsOfStartOnly(d) == getMonthsBetween(d.period_start, d.period_start)

\* getMonthsBetween(d.period_start, d.period_end || d.period_start)
MonthsOf(d) ==
  getMonthsBetween(d.period_start,
                   IF d.period_end = None THEN d.period_start ELSE d.period_end)

\* the body of `for (const d of s.data)`
AddRecord(pm, provider, d) ==
  IF Skipped(d) THEN pm
  ELSE LET months == MonthsOf(d)
       IN  AccumulateMonths(pm, months, provider, PerMonth(CostOf(d), months))

RECURSIVE AddRecords(_, _, _)
AddRecords(pm, provider, data) ==
  IF data = <<>> THEN pm
  ELSE AddRecords(AddRecord(pm, provider, data[1]), provider, Tail(data))

RECURSIVE ProviderMonths(_, _)
\* the loop `for (const s of chartData.series)`
ProviderMonths(pm, series) ==
  IF series = <<>> THEN pm
  ELSE ProviderMonths(AddRecords(pm, series[1].provider, series[1].data), Tail(series))

RECURSIVE Insert(_, _)
Insert(sorted, row) ==
  IF sorted = <<>> THEN <<row>>
  ELSE IF localeCompare(row.month, sorted[1].month) < 0 THEN <<row>> \o sorted
  ELSE <<sorted[1]>> \o Insert(Tail(sorted), row)

\* mutant: the rows keep their insertion order
Unsorted(rows) == rows

RECURSIVE SortByMonth(_)
\* .sort((a, b) => a.month.localeCompare(b.month)), a stable sort
SortByMonth(rows) ==
  IF rows = <<>> THEN <<>>
  ELSE Insert(SortByMonth(SubSeq(rows, 1, Len(rows) - 1)), rows[Len(rows)])

\* mutant: every provider of the row is counted as eon
RoundRowAllAsEon(row) ==
  [month |-> row.month,
   eon   |-> Round2(ValueOr0(row.cost, "eon") + ValueOr0(row.cost, "tauron")),
   pgnig |-> Round2(ValueOr0(row.cost, "pgnig")),
   mpwik |-> Round2(ValueOr0(row.cost, "mpwik"))]

\* the .map of allMonthly: the three tracked providers, each rounded
RoundRow(row) ==
  [month |-> row.month,
   eon   |-> Round2(ValueOr0(row.cost, "eon")),
   pgnig |-> Round2(ValueOr0(row.cost, "pgnig")),
   mpwik |-> Round2(ValueOr0(row.cost, "mpwik"))]

AllMonthly(data) ==
  IF data.null \/ Len(data.series) = 0 THEN <<>>
  ELSE LET sorted == SortByMonth(ProviderMonths(<<>>, data.series))
       IN  [i \in 1..Len(sorted) |-> RoundRow(sorted[i])]

allMonthly == AllMonthly(chartData)

-----------------------------------------------------------------------------
(* aggregateToQuarters (Dashboard.jsx 76-87) *)

\* row[key] || 0
FieldOr0(row, key) == IF key \in DOMAIN row THEN row[key] ELSE 0

\* the inner loop over Object.keys(row), 'month' and 'period' skipped
AddRowToQuarter(q, row) ==
  LET keys == DOMAIN row \ {"month", "period"}
  IN  [k \in DOMAIN q \cup keys |->
         IF k \in keys THEN FieldOr0(q, k) + FieldOr0(row, k) ELSE q[k]]

\* the body of `for (const row of monthlyData)`
AddToQuarters(quarters, row) ==
  LET qKey == toQuarter(row.month)
      qs   == IF \E i \in 1..Len(quarters) : quarters[i].period = qKey
              THEN quarters
              ELSE Append(quarters, [period |-> qKey])
  IN  [i \in 1..Len(qs) |->
         IF qs[i].period = qKey THEN AddRowToQuarter(qs[i], row) ELSE qs[i]]

RECURSIVE QuartersOf(_, _)
QuartersOf(quarters, monthlyData) ==
  IF monthlyData = <<>> THEN quarters
  ELSE QuartersOf(AddToQuarters(quarters, monthlyData[1]), Tail(monthlyData))

RECURSIVE InsertPeriod(_, _)
InsertPeriod(sorted, row) ==
  IF sorted = <<>> THEN <<row>>
  ELSE IF localeCompare(row.period, sorted[1].period) < 0 THEN <<row>> \o sorted
  ELSE <<sorted[1]>> \o InsertPeriod(Tail(sorted), row)

RECURSIVE SortByPeriod(_)
\* .sort((a, b) => a.period.localeCompare(b.period))
SortByPeriod(rows) ==
  IF rows = <<>> THEN <<>>
  ELSE InsertPeriod(SortByPeriod(SubSeq(rows, 1, Len(rows) - 1)), rows[Len(rows)])

aggregateToQuarters(monthlyData) == SortByPeriod(QuartersOf(<<>>, monthlyData))

-----------------------------------------------------------------------------
(* The window (Dashboard.jsx 89-95, 151-167) *)

RECURSIVE NormalizeNoBorrow(_, _)
\* mutant: a month below 1 wraps without decreasing the year
NormalizeNoBorrow(y, m) ==
  IF m > 12 THEN NormalizeNoBorrow(y + 1, m - 12)
  ELSE IF m < 1 THEN NormalizeNoBorrow(y, m + 12)
  ELSE MonthKey(y, m)

RECURSIVE Normalize(_, _)
\* the two while loops of addMonths
Normalize(y, m) ==
  IF m > 12 THEN Normalize(y + 1, m - 12)
  ELSE IF m < 1 THEN Normalize(y - 1, m + 12)
  ELSE MonthKey(y, m)

addMonths(ym, n) ==
  LET p == SplitDash(ym) IN Normalize(ToNumber(p[1]), ToNumber(p[2]) + n)

\* mutant: width 0 is not treated as unbounded
WindowNoUnbounded(timeline, width, off) ==
  IF Len(timeline) = 0
  THEN [windowStart |-> None, windowEnd |-> None,
        canGoBack |-> FALSE, canGoForward |-> FALSE]
  ELSE LET lastMonth  == timeline[Len(timeline)].month
           firstMonth == timeline[1].month
           end   == addMonths(lastMonth, -off)
           start == addMonths(end, -(width - 1))
       IN  [windowStart |-> start, windowEnd |-> end,
            canGoBack |-> StrLess(firstMonth, start),
            canGoForward |-> off > 0]

\* mutant: canGoBack also when the window starts at the first month
WindowBackInclusive(timeline, width, off) ==
  IF Len(timeline) = 0
  THEN [windowStart |-> None, windowEnd |-> None,
        canGoBack |-> FALSE, canGoForward |-> FALSE]
  ELSE LET lastMonth  == timeline[Len(timeline)].month
           firstMonth == timeline[1].month
           end   == addMonths(lastMonth, -off)
           start == addMonths(end, -(width - 1))
       IN  IF width = 0
           THEN [windowStart |-> firstMonth, windowEnd |-> lastMonth,
                 canGoBack |-> FALSE, canGoForward |-> FALSE]
           ELSE [windowStart |-> start, windowEnd |-> end,
                 canGoBack |-> StrLeq(firstMonth, start),
                 canGoForward |-> off > 0]

Window(timeline, width, off) ==
  IF Len(timeline) = 0
  THEN [windowStart |-> None, windowEnd |-> None,
        canGoBack |-> FALSE, canGoForward |-> FALSE]
  ELSE LET lastMonth  == timeline[Len(timeline)].month
           firstMonth == timeline[1].month
           end   == addMonths(lastMonth, -off)
           start == addMonths(end, -(width - 1))
       IN  IF width = 0
           THEN [windowStart |-> firstMonth, windowEnd |-> lastMonth,
                 canGoBack |-> FALSE, canGoForward |-> FALSE]
           ELSE [windowStart |-> start, windowEnd |-> end,
                 canGoBack |-> StrLess(firstMonth, start),
                 canGoForward |-> off > 0]

window == Window(allMonthly, windowMonths, offset)

-----------------------------------------------------------------------------
(* displayData (Dashboard.jsx 170-194) *)

RECURSIVE FilterRowsBeforeEnd(_, _, _)
\* mutant: the row of the window's last month is dropped
FilterRowsBeforeEnd(rows, ws, we) ==
  IF rows = <<>> THEN <<>>
  ELSE IF StrLeq(ws, rows[1].month) /\ StrLess(rows[1].month, we)
       THEN <<rows[1]>> \o FilterRowsBeforeEnd(Tail(rows), ws, we)
       ELSE FilterRowsBeforeEnd(Tail(rows), ws, we)

RECURSIVE FilterRows(_, _, _)
\* allMonthly.filter(row => row.month >= windowStart && row.month <= windowEnd)
FilterRows(rows, ws, we) ==
  IF rows = <<>> THEN <<>>
  ELSE IF StrLeq(ws, rows[1].month) /\ StrLeq(rows[1].month, we)
       THEN <<rows[1]>> \o FilterRows(Tail(rows), ws, we)
       ELSE FilterRows(Tail(rows), ws, we)

Filtered(timeline, width, w) ==
  IF width > 0 /\ w.windowStart # None /\ w.windowEnd # None
  THEN FilterRows(timeline, w.windowStart, w.windowEnd)
  ELSE timeline

\* the row of month mode
MonthChartRow(row) ==
  [period |-> row.month, eon |-> row.eon, pgnig |-> row.pgnig, mpwik |-> row.mpwik]

ChartRows(filtered, agg) ==
  IF agg = "quarter" THEN aggregateToQuarters(filtered)
  ELSE [i \in 1..Len(filtered) |-> MonthChartRow(filtered[i])]

\* mutant: total is the rounded eon value alone
DisplayRowTotalOfEon(r) ==
  [period |-> r.period,
   eon    |-> Round2(FieldOr0(r, "eon")),
   pgnig  |-> Round2(FieldOr0(r, "pgnig")),
   mpwik  |-> Round2(FieldOr0(r, "mpwik")),
   total  |-> Round2(FieldOr0(r, "eon"))]

\* the projection `final`
DisplayRow(r) ==
  [period |-> r.period,
   eon    |-> Round2(FieldOr0(r, "eon")),
   pgnig  |-> Round2(FieldOr0(r, "pgnig")),
   mpwik  |-> Round2(FieldOr0(r, "mpwik")),
   total  |-> Round2(FieldOr0(r, "eon") + FieldOr0(r, "pgnig") + FieldOr0(r, "mpwik"))]

\* mutant: the quarters are those of the whole timeline
DisplayDataQuartersOfTimeline(timeline, width, w, agg) ==
  IF Len(timeline) = 0 THEN <<>>
  ELSE LET rows == IF agg = "quarter" THEN aggregateToQuarters(timeline)
                   ELSE ChartRows(Filtered(timeline, width, w), agg)
       IN  [i \in 1..Len(rows) |-> DisplayRow(rows[i])]

DisplayData(timeline, width, w, agg) ==
  IF Len(timeline) = 0 THEN <<>>
  ELSE LET rows == ChartRows(Filtered(timeline, width, w), agg)
       IN  [i \in 1..Len(rows) |-> DisplayRow(rows[i])]

displayData == DisplayData(allMonthly, windowMonths, window, aggregation)

-----------------------------------------------------------------------------
(* The component's state and handlers (Dashboard.jsx 97-117, 196-203) *)

LOCATIONS == {"", "Platnicza", "Rydygiera"}
TIME_RANGES == {12, 24, 36, 0}
AGGREGATIONS == {"month", "quarter"}

\* the toolbar and the location select are rendered (Dashboard.jsx 209-225)
Rendered == ~loading /\ ~chartData.null /\ Len(chartData.series) > 0

RemoveAt(seq, i) == SubSeq(seq, 1, i - 1) \o SubSeq(seq, i + 1, Len(seq))

TABS == {"dashboard", "files", "documents"}

\* file paths the scan and the upload answer with
Paths == {"a.pdf", "b.pdf"}

\* data.files of a scan: none, or the files in the server's order
ScanResults == {<<>>, <<"a.pdf", "b.pdf">>}

MaxRuns == 2
MaxRefreshKey == 3

\* processing = {} and results = {}: no path has a status or a result
NoStatus == [f \in Paths |-> "undefined"]
NoResults == [f \in Paths |-> None]

\* no handleProcess call (counted by path) and no process-all run of the
\* mounted FileManager is in flight
NoCalls == [f \in Paths |-> 0]
NoRuns == [s \in 1..MaxRuns |-> None]

\* a FileManager that is not mounted, or has just been mounted
FileManagerFresh ==
  /\ files = <<>>
  /\ scanning = FALSE
  /\ processing = NoStatus
  /\ results = NoResults

\* after the mount effect: loadData has set loading and issued its fetch;
\* the App shows the dashboard tab
Init ==
  /\ chartData = NullData
  /\ loading = TRUE
  /\ location = "Platnicza 65"
  /\ windowMonths = 36
  /\ offset = 0
  /\ aggregation = "month"
  /\ pending = <<"Platnicza 65">>
  /\ activeTab = "dashboard"
  /\ refreshKey = 0
  /\ FileManagerFresh
  /\ calls = NoCalls
  /\ runs = NoRuns
  /\ uploads = 0
  /\ detached = 0

\* a fetch of loadData resolves: setChartData(data), then setLoading(false).
\* data is the response without series, or the given series holding at most
\* MaxRecords of the given records in all
FetchResolve(records, providers) ==
  \E i \in 1..Len(pending) :
    /\ \/ chartData' = EmptyResponse
       \/ \E k \in 0..MaxRecords :
            \E placed \in [1..k -> (1..Len(providers)) \X records] :
              /\ \A j \in 1..(k - 1) : placed[j][1] <= placed[j + 1][1]
              /\ chartData' = Response(providers, placed)
    /\ loading' = FALSE
    /\ pending' = RemoveAt(pending, i)
    /\ UNCHANGED <<location, windowMonths, offset, aggregation>>
    /\ UNCHANGED appVars

\* a fetch of loadData rejects: console.error, then setLoading(false)
FetchReject ==
  \E i \in 1..Len(pending) :
    /\ loading' = FALSE
    /\ pending' = RemoveAt(pending, i)
    /\ UNCHANGED <<chartData, location, windowMonths, offset, aggregation>>
    /\ UNCHANGED appVars

\* mutant: the select is rendered while a fetch is in flight
SetLocationWhileLoading(l) ==
  /\ ~chartData.null /\ Len(chartData.series) > 0
  /\ l # location
  /\ location' = l
  /\ loading' = TRUE
  /\ pending' = Append(pending, l)
  /\ UNCHANGED <<chartData, windowMonths, offset, aggregation>>
  /\ UNCHANGED appVars

\* the select's onChange, and the effect on [location] that calls loadData
SetLocation(l) ==
  /\ Rendered
  /\ l # location
  /\ location' = l
  /\ loading' = TRUE
  /\ pending' = Append(pending, l)
  /\ UNCHANGED <<chartData, windowMonths, offset, aggregation>>
  /\ UNCHANGED appVars

\* mutant: the offset is kept
handleWindowChangeKeepOffset(months) ==
  /\ Rendered
  /\ windowMonths' = months
  /\ UNCHANGED <<chartData, loading, location, offset, aggregation, pending>>
  /\ UNCHANGED appVars

handleWindowChange(months) ==
  /\ Rendered
  /\ windowMonths' = months
  /\ offset' = 0
  /\ UNCHANGED <<chartData, loading, location, aggregation, pending>>
  /\ UNCHANGED appVars

\* mutant: the stride is the whole window
stepSizeWhole == IF windowMonths > 1 THEN windowMonths ELSE 1

\* Math.max(1, Math.floor(windowMonths / 2))
stepSize == IF windowMonths \div 2 > 1 THEN windowMonths \div 2 ELSE 1

\* the updater o => o + stepSize
backOffset(o) == o + stepSize

\* mutant: forward jumps to the most recent window
forwardToZero(o) == 0

\* the updater o => Math.max(0, o - stepSize)
forwardOffset(o) == IF o - stepSize > 0 THEN o - stepSize ELSE 0

goBack ==
  /\ Rendered /\ windowMonths > 0 /\ window.canGoBack
  /\ offset' = backOffset(offset)
  /\ UNCHANGED <<chartData, loading, location, windowMonths, aggregation, pending>>
  /\ UNCHANGED appVars

goForward ==
  /\ Rendered /\ windowMonths > 0 /\ window.canGoForward
  /\ offset' = forwardOffset(offset)
  /\ UNCHANGED <<chartData, loading, location, windowMonths, aggregation, pending>>
  /\ UNCHANGED appVars

setAggregation(a) ==
  /\ Rendered
  /\ aggregation' = a
  /\ UNCHANGED <<chartData, loading, location, windowMonths, offset, pending>>
  /\ UNCHANGED appVars

Next ==
  \/ FetchResolve(SampleRecords, SampleSeries)
  \/ FetchReject
  \/ \E l \in LOCATIONS : SetLocation(l)
  \/ \E months \in TIME_RANGES : handleWindowChange(months)
  \/ goBack
  \/ goForward
  \/ \E a \in AGGREGATIONS : setAggregation(a)

Spec == Init /\ [][Next]_vars

\* the allocator on every response over AllocRecords
NextAlloc == FetchResolve(AllocRecords, AllocSeries)

SpecAlloc == Init /\ [][NextAlloc]_vars

-----------------------------------------------------------------------------
(* Fetches answered by location (api.js 46-65, Dashboard.jsx 105-117) *)

\* the series the chart endpoint holds, one per provider and location
ServerSeries ==
  << [provider |-> "eon", location |-> "Platnicza 65",
      data |-> <<Rec(FALSE, <<10000>>, DateZ, DateY), Rec(FALSE, <<10000>>, DateB, DateC)>>],
     [provider |-> "pgnig", location |-> "Platnicza",
      data |-> <<Rec(FALSE, <<10000>>, DateB, DateC)>>],
     [provider |-> "mpwik", location |-> "Rydygiera",
      data |-> <<Rec(FALSE, <<10000>>, DateZ, DateY)>>] >>

\* fetchChartData({location}): the series of that location, or all of them
\* when the location is empty
ChartDataFor(l) ==
  [null |-> FALSE,
   series |-> IF l # "" THEN SelectSeq(ServerSeries, LAMBDA s : s.location = l)
              ELSE ServerSeries]

\* a fetch of loadData resolves with the response for the location it was
\* issued for: setChartData(data), then setLoading(false)
FetchResolveFor ==
  \E i \in 1..Len(pending) :
    /\ chartData' = ChartDataFor(pending[i])
    /\ loading' = FALSE
    /\ pending' = RemoveAt(pending, i)
    /\ UNCHANGED <<location, windowMonths, offset, aggregation>>
    /\ UNCHANGED appVars

NextFetch ==
  \/ FetchResolveFor
  \/ FetchReject
  \/ \E l \in LOCATIONS : SetLocation(l)
  \/ \E months \in TIME_RANGES : handleWindowChange(months)
  \/ goBack
  \/ goForward
  \/ \E a \in AGGREGATIONS : setAggregation(a)

SpecFetch == Init /\ [][NextFetch]_vars

-----------------------------------------------------------------------------
(* App and FileManager (App.jsx 28-33, 72-76; FileManager.jsx 11-60;
   api.js 8-28) *)

\* the parsed response of processFile(f)
ProcessResult(f) == [filepath |-> f]

\* { error: e.message } of a failed processFile
ProcessError == [error |-> "Processing failed"]

\* a fresh Dashboard after its mount effect
DashboardMount ==
  /\ chartData' = NullData
  /\ loading' = TRUE
  /\ location' = "Platnicza 65"
  /\ windowMonths' = 36
  /\ offset' = 0
  /\ aggregation' = "month"
  /\ pending' = <<"Platnicza 65">>

\* no Dashboard is mounted: the next one starts from the initial state, and
\* the responses of the old one's fetches reach no component
DashboardUnmount ==
  /\ chartData' = NullData
  /\ loading' = TRUE
  /\ location' = "Platnicza 65"
  /\ windowMonths' = 36
  /\ offset' = 0
  /\ aggregation' = "month"
  /\ pending' = <<>>

\* mutant: the Dashboard is not keyed by refreshKey
handleDataChangedNoRemount ==
  /\ refreshKey' = refreshKey + 1
  /\ UNCHANGED dashVars

\* setRefreshKey(k => k + 1); a mounted Dashboard is keyed by refreshKey, so
\* it is replaced by a fresh one
handleDataChanged ==
  /\ refreshKey' = refreshKey + 1
  /\ IF activeTab = "dashboard" THEN DashboardMount ELSE UNCHANGED dashVars

RECURSIVE Total(_, _)
\* the sum of count[x] over the finite set S
Total(count, S) ==
  IF S = {} THEN 0
  ELSE LET x == CHOOSE y \in S : TRUE IN count[x] + Total(count, S \ {x})

\* for (const file of files): the index of the next file after i that the
\* run's processing does not hold as done, 0 when there is none
NextIndex(run, i) ==
  LET rest == {j \in (i + 1)..Len(run.files) : run.processing[run.files[j]] # "done"}
  IN  IF rest = {} THEN 0 ELSE CHOOSE j \in rest : \A k \in rest : j <= k

\* the processFile requests a run has yet to finish
RunRequests(r) ==
  IF r = None THEN 0
  ELSE Cardinality({j \in r[1].i..Len(r[1].files) :
                      j = r[1].i \/ r[1].processing[r[1].files[j]] # "done"})

\* onDataChanged calls still to come from the mounted FileManager if every
\* request in flight succeeds
Outstanding ==
  Total(calls, Paths) + uploads
    + Total([s \in 1..MaxRuns |-> RunRequests(runs[s])], 1..MaxRuns)

\* refreshKey stays within MaxRefreshKey after n more requests
CanStart(n) == refreshKey + detached + Outstanding + n <= MaxRefreshKey

\* setProcessing(p => ({ ...p, [filepath]: 'loading' }))
Started(status, f) == [status EXCEPT ![f] = "loading"]

\* setProcessing(p => ({ ...p, [filepath]: 'done' })), or 'error'
Completed(status, f, ok) ==
  [status EXCEPT ![f] = IF ok THEN "done" ELSE "error"]

\* setResults(r => ({ ...r, [filepath]: result })), or { error: e.message }
Stored(res, f, ok) ==
  [res EXCEPT ![f] = <<IF ok THEN ProcessResult(f) ELSE ProcessError>>]

\* the scan button: setScanning(true), scanGdrive(). The error banner
\* (setError) is read by no handler and is left out of the state
handleScan ==
  /\ activeTab = "files" /\ ~scanning
  /\ scanning' = TRUE
  /\ UNCHANGED <<dashVars, activeTab, refreshKey, files, processing, results,
                 calls, runs, uploads, detached>>

\* scanGdrive resolves: setFiles(data.files || []), setScanning(false)
ScanResolve ==
  /\ scanning
  /\ \E fs \in ScanResults : files' = fs
  /\ scanning' = FALSE
  /\ UNCHANGED <<dashVars, activeTab, refreshKey, processing, results,
                 calls, runs, uploads, detached>>

\* scanGdrive rejects: setScanning(false)
ScanReject ==
  /\ scanning
  /\ scanning' = FALSE
  /\ UNCHANGED <<dashVars, activeTab, refreshKey, files, processing, results,
                 calls, runs, uploads, detached>>

\* the button of a listed file, rendered while the file has no status:
\* handleProcess(file.path) up to its await
handleProcess(f) ==
  /\ activeTab = "files"
  /\ \E i \in 1..Len(files) : files[i] = f
  /\ processing[f] = "undefined"
  /\ CanStart(1)
  /\ processing' = Started(processing, f)
  /\ calls' = [calls EXCEPT ![f] = @ + 1]
  /\ UNCHANGED <<dashVars, activeTab, refreshKey, files, scanning, results,
                 runs, uploads, detached>>

\* processFile of a handleProcess call resolves: done, the result, onDataChanged
ProcessResolve(f) ==
  /\ calls[f] > 0
  /\ calls' = [calls EXCEPT ![f] = @ - 1]
  /\ processing' = Completed(processing, f, TRUE)
  /\ results' = Stored(results, f, TRUE)
  /\ handleDataChanged
  /\ UNCHANGED <<activeTab, files, scanning, runs, uploads, detached>>

\* processFile of a handleProcess call rejects: error, { error: e.message }
ProcessReject(f) ==
  /\ calls[f] > 0
  /\ calls' = [calls EXCEPT ![f] = @ - 1]
  /\ processing' = Completed(processing, f, FALSE)
  /\ results' = Stored(results, f, FALSE)
  /\ UNCHANGED <<dashVars, activeTab, refreshKey, files, scanning, runs, uploads, detached>>

\* mutant: the run reads the current statuses at each file
RunOfCurrent(s) ==
  [runs[s][1] EXCEPT !.processing = processing]

\* the run in slot s: the files and processing its handleProcessAll closed
\* over, and the index i of the file it awaits
RunOf(s) == runs[s][1]

\* the process-all button, rendered while files are listed: the loop up to
\* its first await. With every file done nothing happens
handleProcessAll ==
  /\ activeTab = "files" /\ Len(files) > 0
  /\ \E s \in 1..MaxRuns :
       /\ runs[s] = None /\ \A t \in 1..(s - 1) : runs[t] # None
       /\ LET run == [files |-> files, processing |-> processing, i |-> 0]
              j   == NextIndex(run, 0)
          IN  /\ j > 0
              /\ CanStart(RunRequests(<<[run EXCEPT !.i = j]>>))
              /\ processing' = Started(processing, files[j])
              /\ runs' = [runs EXCEPT ![s] = <<[run EXCEPT !.i = j]>>]
  /\ UNCHANGED <<dashVars, activeTab, refreshKey, files, scanning, results,
                 calls, uploads, detached>>

\* the awaited handleProcess of run s finishes, and the loop goes on to the
\* next file that is not done, or ends
RunContinue(s, ok) ==
  /\ runs[s] # None
  /\ LET run == RunOf(s)
         f   == run.files[run.i]
         j   == NextIndex(run, run.i)
         st  == Completed(processing, f, ok)
     IN  /\ processing' = IF j > 0 THEN Started(st, run.files[j]) ELSE st
         /\ results' = Stored(results, f, ok)
         /\ runs' = [runs EXCEPT ![s] = IF j > 0 THEN <<[runs[s][1] EXCEPT !.i = j]>>
                                        ELSE None]
  /\ UNCHANGED <<activeTab, files, scanning, calls, uploads, detached>>

\* processFile of run s resolves
RunResolve(s) ==
  /\ RunContinue(s, TRUE)
  /\ handleDataChanged

\* processFile of run s rejects
RunReject(s) ==
  /\ RunContinue(s, FALSE)
  /\ UNCHANGED <<dashVars, refreshKey>>

\* the file input with a file chosen: uploadFile(file)
handleUpload ==
  /\ activeTab = "files"
  /\ CanStart(1)
  /\ uploads' = uploads + 1
  /\ UNCHANGED <<dashVars, activeTab, refreshKey, files, scanning, processing,
                 results, calls, runs, detached>>

\* uploadFile resolves: handleProcess(result.path) up to its await
UploadResolve(p) ==
  /\ uploads > 0
  /\ uploads' = uploads - 1
  /\ processing' = Started(processing, p)
  /\ calls' = [calls EXCEPT ![p] = @ + 1]
  /\ UNCHANGED <<dashVars, activeTab, refreshKey, files, scanning, results, runs,
                 detached>>

\* uploadFile rejects: handleProcess is not called
UploadReject ==
  /\ uploads > 0
  /\ uploads' = uploads - 1
  /\ UNCHANGED <<dashVars, activeTab, refreshKey, files, scanning, processing, results,
                 calls, runs, detached>>

\* a tab button: the component of the old tab is unmounted and loses its
\* state, the one of the new tab is mounted. The scan of an unmounted
\* FileManager answers no one. Its handleProcess calls, runs and uploads go
\* on, but their setters change nothing: of them only the number of
\* processFile requests they can still see succeed is kept
setActiveTab(t) ==
  /\ t # activeTab
  /\ activeTab' = t
  /\ IF t = "dashboard" THEN DashboardMount
     ELSE IF activeTab = "dashboard" THEN DashboardUnmount
     ELSE UNCHANGED dashVars
  /\ IF activeTab = "files"
     THEN /\ files' = <<>>
          /\ scanning' = FALSE
          /\ processing' = NoStatus
          /\ results' = NoResults
          /\ calls' = NoCalls
          /\ runs' = NoRuns
          /\ uploads' = 0
          /\ detached' = detached + Outstanding
     ELSE UNCHANGED <<files, scanning, processing, results, calls, runs, uploads,
                      detached>>
  /\ UNCHANGED refreshKey

\* processFile of an unmounted FileManager's call resolves: onDataChanged
DetachedResolve ==
  /\ detached > 0
  /\ detached' = detached - 1
  /\ handleDataChanged
  /\ UNCHANGED <<activeTab, files, scanning, processing, results, calls, runs, uploads>>

\* processFile of an unmounted FileManager's call rejects, or its upload does
DetachedReject ==
  /\ detached > 0
  /\ detached' = detached - 1
  /\ UNCHANGED <<dashVars, activeTab, refreshKey, files, scanning, processing, results,
                 calls, runs, uploads>>

\* the FileManager's handlers and the completions of its requests
FileManagerNext ==
  \/ handleScan
  \/ ScanResolve
  \/ ScanReject
  \/ \E f \in Paths : handleProcess(f)
  \/ \E f \in Paths : ProcessResolve(f)
  \/ \E f \in Paths : ProcessReject(f)
  \/ handleProcessAll
  \/ \E s \in 1..MaxRuns : RunResolve(s)
  \/ \E s \in 1..MaxRuns : RunReject(s)
  \/ handleUpload
  \/ \E p \in Paths : UploadResolve(p)
  \/ UploadReject

\* the user has opened the files tab
InitFiles ==
  /\ chartData = NullData
  /\ loading = TRUE
  /\ location = "Platnicza 65"
  /\ windowMonths = 36
  /\ offset = 0
  /\ aggregation = "month"
  /\ pending = <<>>
  /\ activeTab = "files"
  /\ refreshKey = 0
  /\ FileManagerFresh
  /\ calls = NoCalls
  /\ runs = NoRuns
  /\ uploads = 0
  /\ detached = 0

\* the FileManager on its own
SpecFiles == InitFiles /\ [][FileManagerNext]_vars

\* the processFile request a run awaits eventually resolves or rejects
SpecFilesFair ==
  /\ SpecFiles
  /\ \A s \in 1..MaxRuns : WF_vars(RunResolve(s) \/ RunReject(s))

\* the App: tabs, the Dashboard and the FileManager
NextApp ==
  \/ FileManagerNext
  \/ \E t \in TABS : setActiveTab(t)
  \/ DetachedResolve
  \/ DetachedReject
  \/ FetchResolveFor
  \/ FetchReject
  \/ \E l \in LOCATIONS : SetLocation(l)
  \/ \E months \in TIME_RANGES : handleWindowChange(months)
  \/ goBack
  \/ goForward
  \/ \E a \in AGGREGATIONS : setAggregation(a)

SpecApp == Init /\ [][NextApp]_vars

-----------------------------------------------------------------------------
(* Properties.  The operators of this section restate the specification    *)
(* independently of the code above: months are counted as y * 12 + m - 1.  *)

Year(s)  == ToNumber(SplitDash(s)[1])
Month(s) == ToNumber(SplitDash(s)[2])
\* the calendar index of a date or month key
MonthIndex(s) == LET p == SplitDash(s) IN ToNumber(p[1]) * 12 + ToNumber(p[2]) - 1
KeyOfIndex(i) == MonthKey(i \div 12, (i % 12) + 1)

\* the records of the loaded chart data, as <<series index, record index>>
RecordIds ==
  UNION {{<<i, j>> : j \in 1..Len(chartData.series[i].data)} : i \in 1..Len(chartData.series)}
RecordAt(id) == chartData.series[id[1]].data[id[2]]
ProviderAt(id) == chartData.series[id[1]].provider

\* a record that passes the allocator's filter
Surviving(d) ==
  /\ ~d.is_estimate
  /\ d.cost_gross # None /\ d.cost_gross[1] # 0
  /\ d.period_start # None

EndOf(d) == IF d.period_end = None THEN d.period_start ELSE d.period_end

\* the calendar months of a record's period
CoveredMonths(d) ==
  LET si == MonthIndex(d.period_start)
      ei == MonthIndex(EndOf(d))
  IN  IF si <= ei THEN {KeyOfIndex(i) : i \in si..ei} ELSE {KeyOfIndex(si)}

\* per record: whether it survives, its provider, the months it covers and
\* its share per month
Allocation ==
  [id \in RecordIds |->
     LET d == RecordAt(id) IN
     IF Surviving(d)
     THEN LET months == CoveredMonths(d) IN
          [surviving |-> TRUE, provider |-> ProviderAt(id), months |-> months,
           share |-> (d.cost_gross[1] * Scale) \div Cardinality(months)]
     ELSE [surviving |-> FALSE, provider |-> ProviderAt(id), months |-> {}, share |-> 0]]

RECURSIVE SumOver(_, _)
\* the sum of f[x] over the finite set S \subseteq DOMAIN f
SumOver(f, S) ==
  IF S = {} THEN 0
  ELSE LET x == CHOOSE y \in S : TRUE IN f[x] + SumOver(f, S \ {x})

RECURSIVE SelectRecords(_, _)
SelectRecords(data, keep) ==
  IF data = <<>> THEN <<>>
  ELSE (IF data[1] \in keep THEN <<data[1]>> ELSE <<>>) \o SelectRecords(Tail(data), keep)

\* the chart data with only the records of `keep`
Restricted(data, keep) ==
  [data EXCEPT !.series =
     [i \in 1..Len(data.series) |->
        [data.series[i] EXCEPT !.data = SelectRecords(data.series[i].data, keep)]]]

AllRecords == {RecordAt(id) : id \in RecordIds}

\* the pre-rounding value of provider p in month ym
RawValue(pm, ym, p) ==
  IF \E i \in 1..Len(pm) : pm[i].month = ym
  THEN LET i == CHOOSE k \in 1..Len(pm) : pm[k].month = ym IN ValueOr0(pm[i].cost, p)
  ELSE 0

\* the months of the rows
RowMonths(rows) == {rows[i].month : i \in 1..Len(rows)}

\* C1: a record with is_estimate = true contributes nothing: the timeline of
\* the loaded data equals the timeline of the same data with every estimate
\* record removed.
EstimateExclusion ==
  AllMonthly(chartData) =
    AllMonthly(Restricted(chartData, {d \in AllRecords : ~d.is_estimate}))

\* an estimate with a positive cost and a period is loaded beside a regular
\* record, and the timeline has been built
EstimateExclusionWitness ==
  /\ ~loading
  /\ \E a, b \in RecordIds :
        /\ RecordAt(a).is_estimate
        /\ RecordAt(a).cost_gross = <<10000>> /\ RecordAt(a).period_start # None
        /\ Surviving(RecordAt(b))
  /\ Len(allMonthly) = 1

\* C2 (as claimed): a record whose cost_gross is absent, zero or negative, or
\* whose period_start is missing, creates no month row and changes no
\* provider value.
NonPositiveCostContributesNothing ==
  ProviderMonths(<<>>, chartData.series) =
    ProviderMonths(<<>>,
      Restricted(chartData,
        {d \in AllRecords :
           /\ d.cost_gross # None /\ d.cost_gross[1] > 0
           /\ d.period_start # None}).series)

\* C3: a surviving record with N months gives each of them the same share
\* cost_gross / N, and the N shares sum to cost_gross.
AllocationConservation ==
  \A id \in RecordIds :
    LET d  == RecordAt(id)
        p  == ProviderAt(id)
        N  == Cardinality(CoveredMonths(d))
        pm == AddRecord(<<>>, p, d)
        share == [i \in 1..Len(pm) |-> ValueOr0(pm[i].cost, p)]
    IN  Surviving(d) =>
          /\ Len(pm) = N
          /\ \A i \in 1..N : share[i] * N = d.cost_gross[1] * Scale
          /\ SumOver(share, 1..N) = d.cost_gross[1] * Scale

\* a surviving record of several months has been allocated
AllocationConservationWitness ==
  /\ ~loading
  /\ \E id \in RecordIds :
        Surviving(RecordAt(id)) /\ Cardinality(CoveredMonths(RecordAt(id))) = 3
  /\ Len(allMonthly) = 3

\* the share of record id in month ym for provider p
ExpectedShare(alloc, id, ym, p) ==
  IF alloc[id].provider = p /\ ym \in alloc[id].months THEN alloc[id].share ELSE 0

ExpectedRaw(alloc, ym, p) ==
  SumOver([id \in DOMAIN alloc |-> ExpectedShare(alloc, id, ym, p)], DOMAIN alloc)

ExpectedMonths(alloc) == UNION {alloc[id].months : id \in DOMAIN alloc}

Reverse(seq) == [i \in 1..Len(seq) |-> seq[Len(seq) + 1 - i]]

\* the series and the records of every series in the opposite order
Reversed(series) ==
  Reverse([i \in 1..Len(series) |-> [series[i] EXCEPT !.data = Reverse(series[i].data)]])

\* C4: contributions are added, never overwritten: the pre-rounding value of
\* provider P in month M is the sum of the shares of the surviving records of
\* P, of any series, that cover M, whatever the order of series and records.
AccumulationByAddition ==
  LET alloc == Allocation
      pm  == ProviderMonths(<<>>, chartData.series)
      rev == ProviderMonths(<<>>, Reversed(chartData.series))
  IN  \A ym \in ExpectedMonths(alloc) \cup RowMonths(pm) \cup RowMonths(rev) :
        \A p \in Providers :
          LET expected == ExpectedRaw(alloc, ym, p) IN
          /\ RawValue(pm, ym, p) = expected
          /\ RawValue(rev, ym, p) = expected

\* two surviving records of one provider, in different series, share a month
AccumulationByAdditionWitness ==
  /\ ~loading
  /\ \E a, b \in RecordIds :
        /\ a[1] # b[1] /\ ProviderAt(a) = ProviderAt(b)
        /\ Surviving(RecordAt(a)) /\ Surviving(RecordAt(b))
        /\ CoveredMonths(RecordAt(a)) \cap CoveredMonths(RecordAt(b)) # {}
        /\ CoveredMonths(RecordAt(a)) # CoveredMonths(RecordAt(b))
  /\ Len(allMonthly) = 5

\* C5: getMonthsBetween(start, end) is the list of the consecutive calendar
\* months from start's month to end's month, ascending, of length
\* 12*(ey-sy) + (em-sm) + 1, when start's month is not after end's; it is the
\* one-element list of start's month when end's month is before start's; it
\* is never empty.
MonthsBetweenCorrect ==
  \A id \in RecordIds :
    LET d == RecordAt(id) IN
    d.period_start # None =>
      LET months == getMonthsBetween(d.period_start, EndOf(d))
          si == MonthIndex(d.period_start)
          ei == MonthIndex(EndOf(d))
      IN  /\ Len(months) >= 1
          /\ si <= ei =>
                /\ Len(months) = 12 * (Year(EndOf(d)) - Year(d.period_start))
                                    + (Month(EndOf(d)) - Month(d.period_start)) + 1
                /\ \A k \in 1..Len(months) : months[k] = KeyOfIndex(si + k - 1)
          /\ si > ei => months = <<KeyOfIndex(si)>>

\* a period across a year end and a period whose end is before its start
\* have been expanded
MonthsBetweenWitness ==
  /\ ~loading
  /\ \E a, b \in RecordIds :
        /\ Surviving(RecordAt(a)) /\ Surviving(RecordAt(b))
        /\ Year(RecordAt(a).period_start) < Year(EndOf(RecordAt(a)))
        /\ MonthIndex(RecordAt(b).period_start) > MonthIndex(EndOf(RecordAt(b)))
  /\ Len(allMonthly) = 3

\* C6: the timeline has exactly one row per month that received a
\* contribution of a surviving record, in strictly ascending order of the
\* month key, which is the chronological order; every row has the three
\* tracked providers, 0 for a provider without a contribution in the month.
TimelineRowsSorted ==
  LET rows  == allMonthly
      alloc == Allocation
      index == [i \in 1..Len(rows) |-> MonthIndex(rows[i].month)]
  IN  /\ RowMonths(rows) = ExpectedMonths(alloc)
      /\ Len(rows) = Cardinality(ExpectedMonths(alloc))
      /\ \A i, j \in 1..Len(rows) :
            i < j => StrLess(rows[i].month, rows[j].month) /\ index[i] < index[j]
      /\ \A i \in 1..Len(rows) :
            /\ DOMAIN rows[i] = {"month", "eon", "pgnig", "mpwik"}
            /\ \A k \in 1..Len(Tracked) :
                  (\A id \in DOMAIN alloc :
                     ~(alloc[id].provider = Tracked[k] /\ rows[i].month \in alloc[id].months))
                    => rows[i][Tracked[k]] = 0

\* the months were inserted out of order, and a row has a provider at 0
\* beside one that contributed
TimelineRowsSortedWitness ==
  /\ ~loading
  /\ LET pm == ProviderMonths(<<>>, chartData.series) IN
        Len(pm) >= 2 /\ StrLess(pm[2].month, pm[1].month)
  /\ LET rows == allMonthly IN
        \E i \in 1..Len(rows) : rows[i].eon # 0 /\ rows[i].mpwik = 0

\* C7 (as claimed): the timeline is dense: every calendar month between its
\* earliest and its latest month has a row (stated for data without a
\* negative cost, which the data model excludes).
TimelineDense ==
  LET rows == allMonthly IN
  (\A id \in RecordIds : RecordAt(id).cost_gross \in {None, <<0>>, <<10000>>}) =>
  \A i \in 1..(Len(rows) - 1) :
    MonthIndex(rows[i + 1].month) = MonthIndex(rows[i].month) + 1

\* C7 (amended): a calendar month between the earliest and the latest month
\* of the timeline has a row exactly when a surviving record covers it.
TimelineCoversExactly ==
  LET rows  == allMonthly
      index == {MonthIndex(rows[i].month) : i \in 1..Len(rows)}
      span  == [id \in RecordIds |->
                  LET d  == RecordAt(id)
                      si == MonthIndex(d.period_start)
                      ei == MonthIndex(EndOf(d))
                  IN  IF ~Surviving(d) THEN {} ELSE IF ei < si THEN {si} ELSE si..ei]
  IN  Len(rows) > 0 =>
        \A idx \in MonthIndex(rows[1].month)..MonthIndex(rows[Len(rows)].month) :
          idx \in index <=> \E id \in RecordIds : idx \in span[id]

\* a timeline with a gap: the months of one record and, after uncovered
\* months, those of another
TimelineCoversExactlyWitness ==
  /\ ~loading
  /\ LET rows == allMonthly IN
        /\ Len(rows) = 4
        /\ MonthIndex(rows[2].month) > MonthIndex(rows[1].month) + 1

\* the chart data without the records of untracked providers
TrackedOnly(data) ==
  [data EXCEPT !.series =
     [i \in 1..Len(data.series) |->
        IF \E k \in 1..Len(Tracked) : data.series[i].provider = Tracked[k]
        THEN data.series[i]
        ELSE [data.series[i] EXCEPT !.data = <<>>]]]

\* field f of the row of `rows` whose key field `key` is k; 0 without one
ValueAt(rows, key, k, f) ==
  IF \E i \in 1..Len(rows) : rows[i][key] = k
  THEN LET i == CHOOSE n \in 1..Len(rows) : rows[n][key] = k IN rows[i][f]
  ELSE 0

\* C8: the records of a provider outside eon, pgnig, mpwik change no
\* surfaced value: every timeline row and every display row has the eon,
\* pgnig, mpwik (and total) of the same data without those records.
UnknownProviderNeverSurfaced ==
  \A t \in {allMonthly} :
  \A w \in {Window(t, windowMonths, offset)} :
  \A d \in {DisplayData(t, windowMonths, w, aggregation)} :
  \A t0 \in {AllMonthly(TrackedOnly(chartData))} :
  \A d0 \in {DisplayData(t0, windowMonths, w, aggregation)} :
      /\ \A i \in 1..Len(t) :
            \A f \in {"eon", "pgnig", "mpwik"} :
              t[i][f] = ValueAt(t0, "month", t[i].month, f)
      /\ \A i \in 1..Len(d) :
            \A f \in {"eon", "pgnig", "mpwik", "total"} :
              d[i][f] = ValueAt(d0, "period", d[i].period, f)

\* quarters are displayed in a 12-month window, and a month of a displayed
\* tracked cost also has the cost of an untracked provider
UnknownProviderNeverSurfacedWitness ==
  /\ Rendered
  /\ aggregation = "quarter" /\ windowMonths = 12
  /\ \E a, b \in RecordIds :
        /\ ProviderAt(a) = "tauron" /\ ProviderAt(b) = "eon"
        /\ Surviving(RecordAt(a)) /\ Surviving(RecordAt(b))
        /\ CoveredMonths(RecordAt(a)) \cap CoveredMonths(RecordAt(b)) # {}
  /\ LET d == displayData IN \E i \in 1..Len(d) : d[i].total > 0

\* the rows the display is built from
filtered == Filtered(allMonthly, windowMonths, window)

\* the key of quarter n of year y
QuarterKey(y, n) == NumToStr(y) \o <<Dash, CharQ>> \o NumToStr(n)

\* the rows of quarter n of year y: January-March are in quarter 1, ...
RowsInQuarter(rows, y, n) ==
  {i \in 1..Len(rows) :
     /\ Year(rows[i].month) = y
     /\ Month(rows[i].month) \in (3 * n - 2)..(3 * n)}

Years == 2022..2024

\* C9: aggregateToQuarters outputs one row per calendar quarter that has an
\* input row, sorted ascending by the key YYYY-Qn, and each provider field
\* of a quarter row is the sum of that field over the input rows of the
\* quarter.
QuartersPartitionAndSum ==
  aggregation = "quarter" =>
    \A rows \in {filtered} :
    \A q \in {aggregateToQuarters(rows)} :
    \A in \in {[yn \in Years \X (1..4) |-> RowsInQuarter(rows, yn[1], yn[2])]} :
    LET nonEmpty == {yn \in Years \X (1..4) : in[yn] # {}}
    IN  /\ Len(q) = Cardinality(nonEmpty)
        /\ {q[i].period : i \in 1..Len(q)} = {QuarterKey(yn[1], yn[2]) : yn \in nonEmpty}
        /\ \A i, j \in 1..Len(q) : i < j => StrLess(q[i].period, q[j].period)
        /\ \A yn \in nonEmpty : \A f \in {"eon", "pgnig", "mpwik"} :
              ValueAt(q, "period", QuarterKey(yn[1], yn[2]), f) =
                SumOver([i \in 1..Len(rows) |-> rows[i][f]], in[yn])

\* seven months of three quarters are rolled up
QuartersPartitionAndSumWitness ==
  /\ Rendered /\ aggregation = "quarter"
  /\ LET rows == filtered IN
        /\ Len(rows) = 7
        /\ Len(aggregateToQuarters(rows)) = 3
        /\ \E i \in 1..Len(rows) : rows[i].eon # 0

\* C10 (as claimed): the value displayed for a provider in a quarter is the
\* 2-decimal rounding of the sum of the provider's unrounded monthly costs in
\* the quarter's visible months.
QuarterSumsRawValues ==
  (aggregation = "quarter" /\ Rendered) =>
    LET pm   == ProviderMonths(<<>>, chartData.series)
        rows == filtered
        d    == displayData
    IN  \A yn \in Years \X (1..4) : \A f \in {"eon", "pgnig", "mpwik"} :
          LET in == RowsInQuarter(rows, yn[1], yn[2]) IN
          in # {} =>
            ValueAt(d, "period", QuarterKey(yn[1], yn[2]), f) =
              Round2(SumOver([i \in 1..Len(rows) |-> RawValue(pm, rows[i].month, f)], in))

-----------------------------------------------------------------------------
(* The window and the display *)

Digits == Zero..(Zero + 9)

\* a month key YYYY-MM: four digits, '-', two digits of a month 01..12
IsMonthKey(s) ==
  /\ Len(s) = 7 /\ s[5] = Dash
  /\ \A i \in {1, 2, 3, 4, 6, 7} : s[i] \in Digits
  /\ (s[6] - Zero) * 10 + (s[7] - Zero) \in 1..12

\* C11: with widthMonths > 0 and a non-empty timeline, windowEnd is the last
\* timeline month minus offsetMonths calendar months and windowStart is
\* windowEnd minus (widthMonths - 1) calendar months, both zero-padded month
\* keys, so the window spans exactly widthMonths consecutive months.
WindowSpansWidth ==
  LET t == allMonthly IN
  (Len(t) > 0 /\ windowMonths > 0) =>
    LET w    == Window(t, windowMonths, offset)
        last == MonthIndex(t[Len(t)].month)
    IN  /\ IsMonthKey(w.windowStart) /\ IsMonthKey(w.windowEnd)
        /\ MonthIndex(w.windowEnd) = last - offset
        /\ MonthIndex(w.windowStart) = last - offset - (windowMonths - 1)
        /\ MonthIndex(w.windowEnd) - MonthIndex(w.windowStart) + 1 = windowMonths

\* a panned 12-month window over a shorter timeline starts in the year
\* before the one it ends in
WindowSpansWidthWitness ==
  /\ Rendered /\ windowMonths = 12 /\ offset > 0
  /\ LET t == allMonthly IN
       /\ Len(t) > 0 /\ Len(t) < windowMonths
       /\ LET w == Window(t, windowMonths, offset)
          IN  Year(w.windowStart) < Year(w.windowEnd)

\* C12: with widthMonths > 0 and a non-empty timeline, canGoBack holds
\* exactly when a timeline month lies strictly before windowStart, that is
\* when windowStart is after the first timeline month, and canGoForward
\* exactly when offsetMonths > 0; at offset 0 on a timeline that spans more
\* months than the window, the window ends at the last timeline month,
\* canGoBack holds and canGoForward does not.
PanButtonsEnabled ==
  LET t == allMonthly IN
  (Len(t) > 0 /\ windowMonths > 0) =>
    LET w      == Window(t, windowMonths, offset)
        first  == MonthIndex(t[1].month)
        last   == MonthIndex(t[Len(t)].month)
        start  == MonthIndex(w.windowStart)
        before == {i \in 1..Len(t) : MonthIndex(t[i].month) < start}
    IN  /\ w.canGoBack <=> (before # {})
        /\ w.canGoBack <=> (start > first)
        /\ w.canGoForward <=> (offset > 0)
        /\ (offset = 0 /\ last - first + 1 > windowMonths) =>
              /\ w.windowEnd = t[Len(t)].month
              /\ w.canGoBack /\ ~w.canGoForward

\* the most recent 12 months of a timeline that spans more than 12 months
PanButtonsEnabledWitness ==
  /\ Rendered /\ windowMonths = 12 /\ offset = 0
  /\ LET t == allMonthly IN
       /\ Len(t) > 0
       /\ MonthIndex(t[Len(t)].month) - MonthIndex(t[1].month) + 1 > windowMonths
       /\ Window(t, windowMonths, offset).canGoBack

\* offsets the window is evaluated at besides the current one
ProbeOffsets == {0, 6, 12, 18}

\* C13: with widthMonths = 0 and a non-empty timeline, windowStart is the
\* first and windowEnd the last timeline month, canGoBack and canGoForward
\* are false and every timeline row is displayed, whatever offsetMonths is.
UnboundedWindow ==
  LET t == allMonthly IN
  (Len(t) > 0 /\ windowMonths = 0) =>
    \A o \in ProbeOffsets \cup {offset} :
      LET w == Window(t, windowMonths, o)
          d == DisplayData(t, windowMonths, w, "month")
      IN  /\ w.windowStart = t[1].month
          /\ w.windowEnd = t[Len(t)].month
          /\ ~w.canGoBack /\ ~w.canGoForward
          /\ Filtered(t, windowMonths, w) = t
          /\ Len(d) = Len(t)
          /\ \A i \in 1..Len(t) : d[i].period = t[i].month

\* the whole range of a timeline that spans more than 12 months
UnboundedWindowWitness ==
  /\ Rendered /\ windowMonths = 0
  /\ LET t == allMonthly IN
       /\ Len(t) > 1
       /\ MonthIndex(t[Len(t)].month) - MonthIndex(t[1].month) + 1 > 12
       /\ Len(displayData) = Len(t)

\* max(1, floor(width / 2))
Stride(width) == IF width \div 2 >= 1 THEN width \div 2 ELSE 1

\* C14: a back step adds max(1, floor(widthMonths / 2)) to offsetMonths, a
\* forward step subtracts it and clamps at 0; offsetMonths only ever grows
\* by a back step; neither step changes widthMonths or the aggregation; and
\* offsetMonths is always an integer >= 0.  (A step of goBack or goForward
\* that leaves offsetMonths as it was changes nothing at all.)
PagingStride ==
  /\ [](offset \in Nat)
  /\ [][offset' # offset =>
          /\ offset' > offset =>
               /\ offset' = offset + Stride(windowMonths)
               /\ UNCHANGED <<windowMonths, aggregation>>
          /\ offset' < offset =>
               \/ offset' = 0
               \/ /\ offset' = offset - Stride(windowMonths)
                  /\ UNCHANGED <<windowMonths, aggregation>>
          /\ goBack =>
               /\ offset' = offset + Stride(windowMonths)
               /\ UNCHANGED <<windowMonths, aggregation>>
          /\ goForward =>
               /\ offset' = (IF offset - Stride(windowMonths) >= 0
                             THEN offset - Stride(windowMonths) ELSE 0)
               /\ UNCHANGED <<windowMonths, aggregation>>]_vars

\* two back steps of a 12-month window have been taken
PagingStrideWitness ==
  /\ Rendered /\ windowMonths = 12 /\ offset = 2 * Stride(12)
  /\ window.canGoForward

\* C15: choosing a preset (12, 24, 36 or 0) sets offsetMonths to 0 from any
\* offset, also when the preset is the current widthMonths; right after it
\* canGoForward is false and the window ends at the last timeline month.
\* No step changes widthMonths without setting offsetMonths to 0.
PresetResetsOffset ==
  [][/\ windowMonths' # windowMonths => offset' = 0
     /\ (\E months \in TIME_RANGES : handleWindowChange(months)) =>
          /\ offset' = 0
          /\ \A t \in {AllMonthly(chartData')} :
               \A w \in {Window(t, windowMonths', offset')} :
                 /\ ~w.canGoForward
                 /\ Len(t) > 0 => w.windowEnd = t[Len(t)].month]_vars

\* a preset other than the initial 36 months is in force, on the most
\* recent months of a timeline
PresetResetsOffsetWitness ==
  /\ Rendered /\ windowMonths = 24 /\ offset = 0
  /\ LET t == allMonthly
         w == Window(t, windowMonths, offset)
     IN  Len(t) > 0 /\ w.windowEnd = t[Len(t)].month /\ ~w.canGoForward

\* C16: with widthMonths > 0, a back step followed by a forward step (which
\* the back step always enables) returns offsetMonths, windowStart and
\* windowEnd to their values before the two steps; and at offsetMonths = 0
\* canGoForward is false.
PanRoundTrip ==
  windowMonths > 0 =>
    \A t \in {allMonthly} :
      LET back    == backOffset(offset)
          forward == forwardOffset(back)
      IN  /\ back > offset
          /\ forward = offset
          /\ Len(t) > 0 =>
               \A w \in {Window(t, windowMonths, offset)} :
                 /\ Window(t, windowMonths, back).canGoForward
                 /\ Window(t, windowMonths, back).windowEnd # w.windowEnd
                 /\ Window(t, windowMonths, forward).windowStart = w.windowStart
                 /\ Window(t, windowMonths, forward).windowEnd = w.windowEnd
                 /\ offset = 0 => ~w.canGoForward

\* a window that has been panned back and can be panned back again
PanRoundTripWitness ==
  /\ Rendered /\ windowMonths > 0 /\ offset > 0
  /\ window.canGoBack

\* the rows of t whose month is one of the calendar months lo..hi, in order
RowsWithin(t, lo, hi) ==
  SelectSeq(t, LAMBDA row : lo <= MonthIndex(row.month) /\ MonthIndex(row.month) <= hi)

\* C17: with widthMonths > 0 the rows displayed in month mode are exactly
\* the timeline rows whose month is from windowStart to windowEnd, both
\* included, in timeline order.
WindowFilterExact ==
  (aggregation = "month" /\ windowMonths > 0) =>
    \A t \in {allMonthly} :
      Len(t) > 0 =>
        \A w \in {Window(t, windowMonths, offset)} :
          LET inside == RowsWithin(t, MonthIndex(w.windowStart), MonthIndex(w.windowEnd))
              d      == DisplayData(t, windowMonths, w, aggregation)
          IN  /\ Len(d) = Len(inside)
              /\ \A i \in 1..Len(d) :
                   /\ d[i].period = inside[i].month
                   /\ \A f \in {"eon", "pgnig", "mpwik"} : d[i][f] = inside[i][f]

\* a panned window with timeline rows before it, in it and after it
WindowFilterExactWitness ==
  /\ Rendered /\ aggregation = "month" /\ windowMonths > 0 /\ offset > 0
  /\ LET t == allMonthly
         w == Window(t, windowMonths, offset)
     IN  /\ \E i \in 1..Len(t) : StrLess(t[i].month, w.windowStart)
         /\ \E i \in 1..Len(t) : StrLess(w.windowEnd, t[i].month)
         /\ Len(displayData) > 0

\* C18: in quarter mode with widthMonths > 0 a quarter is displayed exactly
\* when one of its timeline months is inside the window, and its values are
\* the sums over those of its timeline rows that are inside the window.
QuarterRollupOfWindow ==
  (aggregation = "quarter" /\ windowMonths > 0) =>
    \A t \in {allMonthly} :
      Len(t) > 0 =>
        \A w \in {Window(t, windowMonths, offset)} :
          \A inside \in {RowsWithin(t, MonthIndex(w.windowStart), MonthIndex(w.windowEnd))} :
          \A d \in {DisplayData(t, windowMonths, w, aggregation)} :
          \A in \in {[yn \in Years \X (1..4) |-> RowsInQuarter(inside, yn[1], yn[2])]} :
            LET shown == {yn \in Years \X (1..4) : in[yn] # {}}
            IN  /\ Len(d) = Cardinality(shown)
                /\ {d[i].period : i \in 1..Len(d)} = {QuarterKey(yn[1], yn[2]) : yn \in shown}
                /\ \A yn \in shown : \A f \in {"eon", "pgnig", "mpwik"} :
                     ValueAt(d, "period", QuarterKey(yn[1], yn[2]), f) =
                       Round2(SumOver([i \in 1..Len(inside) |-> inside[i][f]], in[yn]))

\* a quarter with a month before the window and a month in it is displayed,
\* and the quarter before it is not
QuarterRollupOfWindowWitness ==
  /\ Rendered /\ aggregation = "quarter" /\ windowMonths > 0
  /\ LET t == allMonthly
         w == Window(t, windowMonths, offset)
         d == displayData
     IN  \E i, j, k \in 1..Len(t) :
           /\ StrLess(t[i].month, w.windowStart)
           /\ StrLeq(w.windowStart, t[j].month) /\ StrLeq(t[j].month, w.windowEnd)
           /\ toQuarter(t[i].month) = toQuarter(t[j].month)
           /\ StrLess(t[k].month, w.windowStart)
           /\ toQuarter(t[k].month) # toQuarter(t[j].month)
           /\ \E n \in 1..Len(d) : d[n].period = toQuarter(t[j].month)
           /\ \A n \in 1..Len(d) : d[n].period # toQuarter(t[k].month)

\* the value of field f of a chart row, 0 when the row has no such field
ValueOf(r, f) == IF f \in DOMAIN r THEN r[f] ELSE 0

\* an amount with 2 decimals
TwoDecimals(x) == x % Scale = 0

\* C19: in month and in quarter mode every display row has the period of
\* the chart row it projects, eon, pgnig and mpwik equal to the 2-decimal
\* rounding of that row's values, and total equal to the 2-decimal rounding
\* of the sum of these three values and of nothing else.
DisplayTotals ==
  \A t \in {allMonthly} :
    \A w \in {Window(t, windowMonths, offset)} :
      Len(t) > 0 =>
        \A rows \in {ChartRows(Filtered(t, windowMonths, w), aggregation)} :
        \A d \in {DisplayData(t, windowMonths, w, aggregation)} :
            /\ Len(d) = Len(rows)
            /\ \A i \in 1..Len(d) :
                 /\ DOMAIN d[i] = {"period", "eon", "pgnig", "mpwik", "total"}
                 /\ d[i].period = rows[i].period
                 /\ \A f \in {"eon", "pgnig", "mpwik"} :
                      /\ d[i][f] = Round2(ValueOf(rows[i], f))
                      /\ TwoDecimals(d[i][f])
                 /\ d[i].total = Round2(ValueOf(rows[i], "eon") + ValueOf(rows[i], "pgnig")
                                          + ValueOf(rows[i], "mpwik"))
                 /\ TwoDecimals(d[i].total)

\* a displayed quarter with costs of two tracked providers
DisplayTotalsWitness ==
  /\ Rendered /\ aggregation = "quarter"
  /\ LET d == displayData
     IN  \E i \in 1..Len(d) :
           d[i].eon > 0 /\ d[i].mpwik > 0 /\ d[i].total = d[i].eon + d[i].mpwik

-----------------------------------------------------------------------------
(* Degenerate input *)

\* no chart data, no series, or no record that passes the allocator's filter
Degenerate ==
  \/ chartData.null
  \/ Len(chartData.series) = 0
  \/ \A id \in RecordIds : ~Surviving(RecordAt(id))

NoWindow ==
  [windowStart |-> None, windowEnd |-> None, canGoBack |-> FALSE, canGoForward |-> FALSE]

\* C20: on degenerate input the timeline is empty, the window is null with
\* both pan flags false and the display is empty, for every width, offset
\* and aggregation, and aggregateToQuarters of the empty list is empty;
\* every stage evaluates without an error.
DegenerateInputEmptyOutput ==
  Degenerate =>
    \A t \in {allMonthly} :
      /\ t = <<>>
      /\ aggregateToQuarters(t) = <<>>
      /\ \A width \in TIME_RANGES : \A o \in ProbeOffsets :
           \A w \in {Window(t, width, o)} :
             /\ w = NoWindow
             /\ \A agg \in AGGREGATIONS : DisplayData(t, width, w, agg) = <<>>

\* series with an estimate and a record without period_start and nothing else
DegenerateInputEmptyOutputWitness ==
  /\ ~loading /\ ~chartData.null /\ Len(chartData.series) > 0
  /\ Degenerate
  /\ \E a, b \in RecordIds :
       /\ RecordAt(a).is_estimate
       /\ ~RecordAt(b).is_estimate /\ RecordAt(b).period_start = None
  /\ displayData = <<>>

-----------------------------------------------------------------------------
(* The window after the timeline has changed (Dashboard.jsx 105-117, 151-167) *)

\* C21: in every reachable state with a non-empty timeline and
\* widthMonths > 0, where back is taken only while canGoBack holds and the
\* location (and so the loaded timeline) may change at any time, the window
\* overlaps the timeline's range: windowEnd is not before the first timeline
\* month and windowStart is not after the last one.
WindowOverlapsTimeline ==
  LET t == allMonthly IN
  (Len(t) > 0 /\ windowMonths > 0) =>
    LET w == Window(t, windowMonths, offset)
    IN  /\ MonthIndex(w.windowEnd) >= MonthIndex(t[1].month)
        /\ MonthIndex(w.windowStart) <= MonthIndex(t[Len(t)].month)

-----------------------------------------------------------------------------
(* Responses and the selected location *)

-----------------------------------------------------------------------------
(* FileManager: requests in flight and process-all runs *)

\* the processFile requests in flight for path f
RequestsFor(f) ==
  calls[f]
    + Cardinality({s \in 1..MaxRuns :
                     runs[s] # None /\ runs[s][1].files[runs[s][1].i] = f})

\* C23: under any interleaving of per-file process clicks, process-all
\* clicks and upload-triggered processing, no two processFile requests are
\* in flight for the same file path at the same time.
OneRequestPerPath ==
  \A f \in Paths : RequestsFor(f) <= 1

\* the files of a run strictly between indices a and b were all done when
\* the run was started
DoneBetween(run, a, b) ==
  \A k \in (a + 1)..(b - 1) : run.processing[run.files[k]] = "done"

\* C24: a process-all run handles the files one after another in list order:
\* it starts with the first file that was not done when the run was started,
\* and when its awaited request resolves or fails (that file becomes done or
\* error) it starts the request for the next file that was not done at the
\* start, skipping exactly the files that were; after the last such file it
\* ends, and then every file of its list is done or error, none being
\* loading unless another call is processing that file at that moment. If
\* every request eventually completes, the run ends.
ProcessAllSequential ==
  /\ [][\A s \in 1..MaxRuns :
          /\ (runs[s] = None /\ runs'[s] # None) =>
               LET run == runs'[s][1] IN
                 /\ run.files = files /\ run.processing = processing
                 /\ run.i \in 1..Len(files)
                 /\ run.processing[run.files[run.i]] # "done"
                 /\ DoneBetween(run, 0, run.i)
                 /\ processing'[run.files[run.i]] = "loading"
          /\ (runs[s] # None /\ runs'[s] # runs[s]) =>
               LET run == runs[s][1]
                   f   == run.files[run.i]
               IN  /\ processing'[f] \in {"done", "error"}
                   /\ results'[f] # None
                   /\ IF runs'[s] # None
                      THEN LET next == runs'[s][1] IN
                             /\ next.files = run.files
                             /\ next.processing = run.processing
                             /\ next.i \in (run.i + 1)..Len(run.files)
                             /\ run.processing[run.files[next.i]] # "done"
                             /\ DoneBetween(run, run.i, next.i)
                             /\ processing'[run.files[next.i]] = "loading"
                      ELSE /\ DoneBetween(run, run.i, Len(run.files) + 1)
                           /\ \A k \in 1..Len(run.files) :
                                \A g \in {run.files[k]} :
                                  \/ processing'[g] \in {"done", "error"}
                                  \/ /\ processing'[g] = "loading"
                                     /\ RequestsFor(g)' >= 1]_vars
  /\ \A s \in 1..MaxRuns : (runs[s] # None) ~> (runs[s] = None)

\* a run goes on with its second file after its first one, not done when
\* the run was started, has failed
ProcessAllSequentialWitness ==
  \E s \in 1..MaxRuns :
    /\ runs[s] # None
    /\ LET run == runs[s][1] IN
         /\ run.i = 2
         /\ run.processing[run.files[1]] # "done"
         /\ processing[run.files[1]] = "error"
         /\ results[run.files[1]] = <<ProcessError>>
         /\ processing[run.files[2]] = "loading"
         /\ RequestsFor(run.files[1]) = 0

-----------------------------------------------------------------------------
(* FileManager: the outcome of a handleProcess call *)

\* a processFile request of a handleProcess call or of a run resolves
RequestSucceeds ==
  \/ \E f \in Paths : ProcessResolve(f)
  \/ \E s \in 1..MaxRuns : RunResolve(s)
  \/ DetachedResolve

\* status and result of every path but f are as before, except that the
\* path in starts is set to loading
OthersKept(f, starts) ==
  \A g \in Paths \ {f} :
    /\ results'[g] = results[g]
    /\ processing'[g] = IF g \in starts THEN "loading" ELSE processing[g]

\* the file a run goes on to in this step, if any
NextFileOf(s) ==
  IF runs'[s] = None THEN {} ELSE {runs'[s][1].files[runs'[s][1].i]}

\* C25: a handleProcess(filepath) call of the mounted FileManager sets the
\* file's status to loading when it starts and, when its request completes,
\* to exactly one of done (the request succeeded; results[filepath] is the
\* response) or error (it failed; results[filepath] is {error: message}).
\* onDataChanged increments refreshKey exactly once for each successful
\* request and never otherwise, and with it the Dashboard is a fresh one
\* with widthMonths 36 and offsetMonths 0. A failure changes no other
\* file's status or result (a process-all run then starts its next file).
\* Every such step changes the App's or the FileManager's state.
ProcessOutcome ==
  [][appVars' # appVars =>
        /\ \A f \in Paths :
             /\ (handleProcess(f) \/ UploadResolve(f)) =>
                  /\ processing'[f] = "loading"
                  /\ results' = results
             /\ ProcessResolve(f) =>
                  /\ processing'[f] = "done"
                  /\ results'[f] = <<ProcessResult(f)>>
                  /\ OthersKept(f, {})
             /\ ProcessReject(f) =>
                  /\ processing'[f] = "error"
                  /\ results'[f] = <<ProcessError>>
                  /\ OthersKept(f, {})
        /\ \A s \in 1..MaxRuns :
             /\ (handleProcessAll /\ runs[s] = None /\ runs'[s] # None) =>
                  /\ \A f \in NextFileOf(s) : processing'[f] = "loading"
                  /\ results' = results
             /\ runs[s] # None =>
                  \A f \in {runs[s][1].files[runs[s][1].i]} :
                    /\ RunResolve(s) =>
                         /\ processing'[f] = "done"
                         /\ results'[f] = <<ProcessResult(f)>>
                         /\ OthersKept(f, NextFileOf(s))
                    /\ RunReject(s) =>
                         /\ processing'[f] = "error"
                         /\ results'[f] = <<ProcessError>>
                         /\ OthersKept(f, NextFileOf(s))
        /\ refreshKey' = IF RequestSucceeds THEN refreshKey + 1 ELSE refreshKey
        /\ refreshKey' # refreshKey =>
             /\ windowMonths' = 36 /\ offset' = 0
             /\ activeTab = "dashboard" =>
                  /\ chartData' = NullData /\ loading'
                  /\ location' = "Platnicza 65" /\ aggregation' = "month"]_vars

\* one file done with its response and one failed with its error, after
\* exactly one onDataChanged
ProcessOutcomeWitness ==
  /\ activeTab = "files" /\ refreshKey = 1
  /\ \E f, g \in Paths :
       /\ processing[f] = "done" /\ results[f] = <<ProcessResult(f)>>
       /\ processing[g] = "error" /\ results[g] = <<ProcessError>>
  /\ Outstanding = 0 /\ detached = 0

====
